---- MODULE Spec2Model ----
(***************************************************************************)
(* Model of the election result engine of                                  *)
(* src/modules/election/services/electionResultService.js:                 *)
(* calculatePositionResults (the tally), processElectionLogic (first-      *)
(* choice pass, second-choice fill, conflict resolution with refill) and   *)
(* processTieAnalysis (the final report with its _tieAnalysis block).      *)
(***************************************************************************)
EXTENDS FiniteSets, Integers, Sequences, TLC

\* ------------------------------------------------------------------ bounds
NumUsers == 3       \* userIds are 1..NumUsers
NumPositions == 2   \* positionIds are 1..NumPositions, in Object.entries order
MaxSeats == 2       \* maxWinners of a position is in 1..MaxSeats
MaxVotes == 2       \* voters of a ballot record are 1..MaxVotes
MaxPicks == 2       \* longest candidate list of one voter (free-form ballots)
MaxClock == 1       \* new Date() returns a time in 0..MaxClock
MaxRuns == 2        \* calculateElectionResults is started at most MaxRuns times

Users == 1..NumUsers
Positions == 1..NumPositions
Voters == 1..MaxVotes

\* a candidate id no registration carries (an unknown id on a ballot)
GhostId == 0
\* an unknown id that names a property every object inherits from
\* Object.prototype ("constructor", "toString", ...): candidateVotes[id] is
\* truthy for it although it is no key of candidateVotes
InheritedId == -1
\* secondChoicePosition of a registration without a second choice
NoPosition == 0

Min(a, b) == IF a < b THEN a ELSE b

RECURSIVE SumSeq(_)
SumSeq(s) == IF s = <<>> THEN 0 ELSE Head(s) + SumSeq(Tail(s))

\* ------------------------------------------------------------- the state
VARIABLES
    positions,      \* election.positions: positionId -> [maxWinners]
    registrations,  \* RegistrationData.getByElection: sequence of registrations
    votes,          \* VoteData.getByElection: positionId -> ballot record
    results,        \* the results object of the running computation
    winners,        \* processElectionLogic: const winners = new Set()
    finalWinners,   \* processElectionLogic: const finalWinners = new Set()
    pc,             \* the statement the computation is at
    idx,            \* the position the current loop is at
    now,            \* the wall clock read by new Date()
    run,            \* how many times calculateElectionResults was started
    report,         \* what the current run returned (when pc = "done")
    firstReport,    \* what the first run returned
    afterFirst,     \* history: results when the first-choice pass ended
    afterSecond     \* history: results when the second-choice fill ended

vars == <<positions, registrations, votes, results, winners, finalWinners,
          pc, idx, now, run, report, firstReport, afterFirst, afterSecond>>

\* ------------------------------------------------------------ the tally
\* Array.prototype.sort is stable: the element at i goes behind every element
\* with a larger key and behind the earlier elements with the same key.
SortDesc(s, key) ==
    LET rank(i) == Cardinality({j \in DOMAIN s :
                        key[j] > key[i] \/ (key[j] = key[i] /\ j < i)}) + 1
    IN  [r \in DOMAIN s |-> s[CHOOSE i \in DOMAIN s : rank(i) = r]]

\* .sort((a, b) => b.votes - a.votes)
SortByVotes(s) == SortDesc(s, [i \in DOMAIN s |-> s[i].votes])

\* the comparator of the tally: votes descending, then 'first' before 'second'
SortCandidateList(s) ==
    SortDesc(s, [i \in DOMAIN s |->
                    2 * s[i].votes + (IF s[i].choiceType = "first" THEN 1 ELSE 0)])

\* allCandidates: the first-choice registrants, then the second-choice
\* registrants whose userId is not in the list yet
RECURSIVE AddSecondChoice(_, _)
AddSecondChoice(all, regs) ==
    IF regs = <<>> THEN all
    ELSE LET reg == Head(regs)
         IN  IF \E i \in DOMAIN all : all[i].userId = reg.userId
             THEN AddSecondChoice(all, Tail(regs))
             ELSE AddSecondChoice(
                    Append(all, [userId |-> reg.userId, choiceType |-> "second"]),
                    Tail(regs))

AllCandidates(positionId, regs) ==
    LET firstChoiceCandidates ==
            SelectSeq(regs, LAMBDA reg : reg.firstChoicePosition = positionId)
        secondChoiceCandidates ==
            SelectSeq(regs, LAMBDA reg : reg.secondChoicePosition = positionId)
        asFirst == [i \in DOMAIN firstChoiceCandidates |->
                      [userId |-> firstChoiceCandidates[i].userId,
                       choiceType |-> "first"]]
    IN  AddSecondChoice(asFirst, secondChoiceCandidates)

\* candidateVotes: an object keyed by userId, listed by Object.values in the
\* order the keys were added (userIds are no array indices), so a userId
\* registered twice keeps the slot of its first entry and the fields of its
\* last one
RECURSIVE CandidateVotesInit(_, _)
CandidateVotesInit(all, acc) ==
    IF all = <<>> THEN acc
    ELSE LET c == Head(all)
             fresh == [userId |-> c.userId, votes |-> 0, isWinner |-> FALSE,
                       choiceType |-> c.choiceType]
         IN  IF \E i \in DOMAIN acc : acc[i].userId = c.userId
             THEN CandidateVotesInit(Tail(all),
                    [i \in DOMAIN acc |->
                        IF acc[i].userId = c.userId THEN fresh ELSE acc[i]])
             ELSE CandidateVotesInit(Tail(all), Append(acc, fresh))

\* the votes one voter's entry gives to candidateId: one per occurrence in
\* the list, none when the entry is not an array
VotesOfEntry(entry, candidateId) ==
    IF entry.isArray
    THEN Cardinality({k \in DOMAIN entry.ids : entry.ids[k] = candidateId})
    ELSE 0

\* positionVote.votes is modelled as the sequence of its entries, one per voterId
VotesFor(positionVote, candidateId) ==
    SumSeq([v \in DOMAIN positionVote.votes |->
                VotesOfEntry(positionVote.votes[v], candidateId)])

\* a 'no one voted' result whose candidates carry isWinner: true
VoidCandidates_Winner(allCandidates) ==
    LET zero == CandidateVotesInit(allCandidates, <<>>)
    IN  [i \in DOMAIN zero |-> [zero[i] EXCEPT !.isWinner = TRUE]]

\* candidateResults of a position without votes: allCandidates.map(...), every
\* candidate at 0 votes and isWinner false (a map keeps a repeated userId)
VoidCandidates(allCandidates) ==
    [i \in DOMAIN allCandidates |->
        [userId |-> allCandidates[i].userId, votes |-> 0, isWinner |-> FALSE,
         choiceType |-> allCandidates[i].choiceType]]

\* totalVotes++ runs whenever candidateVotes[candidateId] is truthy: for the
\* keys of candidateVotes and for the inherited property names
TotalVotes(positionVote, keys) ==
    SumSeq([v \in DOMAIN positionVote.votes |->
                IF positionVote.votes[v].isArray
                THEN Cardinality({k \in DOMAIN positionVote.votes[v].ids :
                        positionVote.votes[v].ids[k] \in keys \cup {InheritedId}})
                ELSE 0])

\* a tally that is void only when the ballot record is missing
HasNoVotes_RecordOnly(positionVote) == ~positionVote.hasRecord

\* !positionVote || !positionVote.votes || Object.keys(positionVote.votes).length === 0
HasNoVotes(positionVote) ==
    ~positionVote.hasRecord \/ ~positionVote.hasVotes
        \/ Len(positionVote.votes) = 0

calculatePositionResults(positionId, allVotes, regs) ==
    LET allCandidates == AllCandidates(positionId, regs)
        positionVote == allVotes[positionId]
    IN  IF Len(allCandidates) = 0
        THEN [candidates |-> <<>>, totalVotes |-> 0, totalVoters |-> 0,
              isVoid |-> TRUE, voidReason |-> "no one registered"]
        ELSE IF HasNoVotes(positionVote)
        THEN [candidates |-> VoidCandidates(allCandidates),
              totalVotes |-> 0, totalVoters |-> 0,
              isVoid |-> TRUE, voidReason |-> "no one voted"]
        ELSE LET zero == CandidateVotesInit(allCandidates, <<>>)
                 counted == [i \in DOMAIN zero |->
                                [zero[i] EXCEPT
                                   !.votes = VotesFor(positionVote, zero[i].userId)]]
             IN  [candidates |-> SortCandidateList(counted),
                  totalVotes |-> TotalVotes(positionVote,
                                    {zero[i].userId : i \in DOMAIN zero}),
                  totalVoters |-> Len(positionVote.votes),
                  isVoid |-> FALSE, voidReason |-> "none"]

\* ------------------------------------------------- processElectionLogic
SetWinners(candidates, ids) ==
    [i \in DOMAIN candidates |->
        IF candidates[i].userId \in ids
        THEN [candidates[i] EXCEPT !.isWinner = TRUE]
        ELSE candidates[i]]

NumWinners(candidates) ==
    Cardinality({i \in DOMAIN candidates : candidates[i].isWinner})

\* a first-choice pass that seats everybody tied with the last seat
FirstChoiceWinners_TieInclusive(result, maxWinners) ==
    LET firstChoiceCandidates ==
            SortByVotes(SelectSeq(result.candidates,
                LAMBDA c : c.choiceType = "first" /\ c.votes > 0))
        n == Min(maxWinners, Len(firstChoiceCandidates))
    IN  {firstChoiceCandidates[i].userId :
            i \in {k \in DOMAIN firstChoiceCandidates :
                     n > 0 /\ firstChoiceCandidates[k].votes
                                 >= firstChoiceCandidates[n].votes}}

\* a first-choice pass whose comparator is a.votes - b.votes
FirstChoiceWinners_Ascending(result, maxWinners) ==
    LET filtered == SelectSeq(result.candidates,
                LAMBDA c : c.choiceType = "first" /\ c.votes > 0)
        firstChoiceCandidates ==
            SortDesc(filtered, [i \in DOMAIN filtered |-> 0 - filtered[i].votes])
    IN  {firstChoiceCandidates[i].userId :
            i \in 1..Min(maxWinners, Len(firstChoiceCandidates))}

\* phase 1, one position: the userIds the first-choice pass marks
FirstChoiceWinners(result, maxWinners) ==
    LET firstChoiceCandidates ==
            SortByVotes(SelectSeq(result.candidates,
                LAMBDA c : c.choiceType = "first" /\ c.votes > 0))
    IN  {firstChoiceCandidates[i].userId :
            i \in 1..Min(maxWinners, Len(firstChoiceCandidates))}

\* a second-choice fill that does not look at the winners so far
SecondChoiceWinners_IgnoreWon(result, maxWinners, won) ==
    LET remainingSlots == maxWinners - NumWinners(result.candidates)
        secondChoiceCandidates ==
            SortByVotes(SelectSeq(result.candidates,
                LAMBDA c : c.choiceType = "second" /\ c.votes > 0 /\ ~c.isWinner))
    IN  IF remainingSlots > 0
        THEN {secondChoiceCandidates[i].userId :
                i \in 1..Min(remainingSlots, Len(secondChoiceCandidates))}
        ELSE {}

\* a second-choice fill whose comparator is a.votes - b.votes
SecondChoiceWinners_Ascending(result, maxWinners, won) ==
    LET remainingSlots == maxWinners - NumWinners(result.candidates)
        filtered == SelectSeq(result.candidates,
                LAMBDA c : c.choiceType = "second" /\ c.votes > 0
                           /\ c.userId \notin won /\ ~c.isWinner)
        secondChoiceCandidates ==
            SortDesc(filtered, [i \in DOMAIN filtered |-> 0 - filtered[i].votes])
    IN  IF remainingSlots > 0
        THEN {secondChoiceCandidates[i].userId :
                i \in 1..Min(remainingSlots, Len(secondChoiceCandidates))}
        ELSE {}

\* phase 2, one position: the userIds the second-choice fill marks
SecondChoiceWinners(result, maxWinners, won) ==
    LET remainingSlots == maxWinners - NumWinners(result.candidates)
        secondChoiceCandidates ==
            SortByVotes(SelectSeq(result.candidates,
                LAMBDA c : c.choiceType = "second" /\ c.votes > 0
                           /\ c.userId \notin won /\ ~c.isWinner))
    IN  IF remainingSlots > 0
        THEN {secondChoiceCandidates[i].userId :
                i \in 1..Min(remainingSlots, Len(secondChoiceCandidates))}
        ELSE {}

\* phase 3, first loop: the first-choice winners of the non-void positions
CollectFirstChoiceWinners(res) ==
    {u \in Users : \E p \in DOMAIN res : ~res[p].isVoid /\
        \E i \in DOMAIN res[p].candidates :
            /\ res[p].candidates[i].userId = u
            /\ res[p].candidates[i].isWinner
            /\ res[p].candidates[i].choiceType = "first"}

\* a forEach that demotes every second-choice winner and finalizes it
RECURSIVE DemoteConflicts_EverySecond(_, _, _)
DemoteConflicts_EverySecond(candidates, i, final) ==
    IF i > Len(candidates) THEN [candidates |-> candidates, final |-> final]
    ELSE LET c == candidates[i]
         IN  IF c.isWinner /\ c.choiceType = "second"
             THEN DemoteConflicts_EverySecond(
                    [candidates EXCEPT ![i].isWinner = FALSE], i + 1,
                    final \cup {c.userId})
             ELSE DemoteConflicts_EverySecond(candidates, i + 1, final)

\* a forEach that demotes the finalized first-choice winners
RECURSIVE DemoteConflicts_FirstChoice(_, _, _)
DemoteConflicts_FirstChoice(candidates, i, final) ==
    IF i > Len(candidates) THEN [candidates |-> candidates, final |-> final]
    ELSE LET c == candidates[i]
         IN  IF c.isWinner /\ c.choiceType = "first" /\ c.userId \in final
             THEN DemoteConflicts_FirstChoice(
                    [candidates EXCEPT ![i].isWinner = FALSE], i + 1, final)
             ELSE IF c.isWinner /\ c.choiceType = "second"
             THEN DemoteConflicts_FirstChoice(candidates, i + 1,
                                              final \cup {c.userId})
             ELSE DemoteConflicts_FirstChoice(candidates, i + 1, final)

\* phase 3, the forEach of one position: a second-choice winner who is
\* finalized already is demoted, any other second-choice winner is finalized
RECURSIVE DemoteConflicts(_, _, _)
DemoteConflicts(candidates, i, final) ==
    IF i > Len(candidates) THEN [candidates |-> candidates, final |-> final]
    ELSE LET c == candidates[i]
         IN  IF c.isWinner /\ c.choiceType = "second" /\ c.userId \in final
             THEN DemoteConflicts([candidates EXCEPT ![i].isWinner = FALSE],
                                  i + 1, final)
             ELSE IF c.isWinner /\ c.choiceType = "second"
             THEN DemoteConflicts(candidates, i + 1, final \cup {c.userId})
             ELSE DemoteConflicts(candidates, i + 1, final)

\* a refill whose comparator is a.votes - b.votes
RefillWinners_Ascending(candidates, maxWinners, final) ==
    LET remainingSlots == maxWinners - NumWinners(candidates)
        filtered == SelectSeq(candidates,
                LAMBDA c : ~c.isWinner /\ c.votes > 0 /\ c.userId \notin final)
        availableCandidates ==
            SortDesc(filtered, [i \in DOMAIN filtered |-> 0 - filtered[i].votes])
    IN  IF remainingSlots > 0
        THEN {availableCandidates[i].userId :
                i \in 1..Min(remainingSlots, Len(availableCandidates))}
        ELSE {}

\* a refill that does not look at the finalized winners
RefillWinners_IgnoreFinal(candidates, maxWinners, final) ==
    LET remainingSlots == maxWinners - NumWinners(candidates)
        availableCandidates ==
            SortByVotes(SelectSeq(candidates,
                LAMBDA c : ~c.isWinner /\ c.votes > 0))
    IN  IF remainingSlots > 0
        THEN {availableCandidates[i].userId :
                i \in 1..Min(remainingSlots, Len(availableCandidates))}
        ELSE {}

\* phase 3, the refill of one position: the userIds marked to fill the seats
RefillWinners(candidates, maxWinners, final) ==
    LET remainingSlots == maxWinners - NumWinners(candidates)
        availableCandidates ==
            SortByVotes(SelectSeq(candidates,
                LAMBDA c : ~c.isWinner /\ c.votes > 0 /\ c.userId \notin final))
    IN  IF remainingSlots > 0
        THEN {availableCandidates[i].userId :
                i \in 1..Min(remainingSlots, Len(availableCandidates))}
        ELSE {}

\* ------------------------------------------------ the tie analysis
\* tieBreakingUtils.detectBoundaryTies: the candidates who share the vote
\* count at rank maxWinners when seating all of them would exceed maxWinners
detectBoundaryTies(candidates, maxWinners) ==
    LET hasTies == /\ Len(candidates) > maxWinners
                   /\ candidates[maxWinners].votes = candidates[maxWinners + 1].votes
    IN  [hasTies |-> hasTies,
         tieGroups |->
            IF hasTies
            THEN {[votes |-> candidates[maxWinners].votes,
                   userIds |-> {candidates[i].userId : i \in
                        {k \in DOMAIN candidates :
                            candidates[k].votes = candidates[maxWinners].votes}}]}
            ELSE {}]

TieAnalysisOf(result, maxWinners) ==
    IF result.isVoid THEN [hasTies |-> FALSE, tieGroups |-> {}]
    ELSE detectBoundaryTies(result.candidates, maxWinners)

\* tieBreakingUtils.analyzeChainEffects / analyzeCrossPositionDependencies:
\* an edge for every candidate of a boundary tie of one position who is a
\* second-choice registrant of another position
analyzeChainEffects(res, pos, regs) ==
    {[dependentPositionId |-> regs[r].secondChoicePosition,
      sourcePositionId |-> a,
      sharedCandidateUserId |-> regs[r].userId] :
        <<a, r>> \in {ar \in Positions \X DOMAIN regs :
            /\ regs[ar[2]].secondChoicePosition \in Positions \ {ar[1]}
            /\ \E g \in TieAnalysisOf(res[ar[1]], pos[ar[1]].maxWinners).tieGroups :
                    regs[ar[2]].userId \in g.userIds}}

\* tieBreakingUtils.assignCandidateStatuses (with the provisional marks of
\* recalculateWithDependencies): the status label of one candidate
StatusOf(c, p, tie, chainEffects) ==
    IF \E e \in chainEffects : e.dependentPositionId = p
                               /\ e.sharedCandidateUserId = c.userId
    THEN "pending-dependency"
    ELSE IF \E g \in tie.tieGroups : c.userId \in g.userIds THEN "pending-tie"
    ELSE IF c.isWinner THEN "winner"
    ELSE IF c.votes > 0 THEN "alternate"
    ELSE "not-selected"

\* processTieAnalysis: the tie analysis of every position, the chain
\* effects, the statuses, and the summary with its timestamp
processTieAnalysis(res, pos, regs, date) ==
    LET chainEffects == analyzeChainEffects(res, pos, regs)
        tieOf == [p \in Positions |-> TieAnalysisOf(res[p], pos[p].maxWinners)]
    IN  [byPosition |->
            [p \in Positions |->
                [candidates |-> res[p].candidates,
                 status |-> [i \in DOMAIN res[p].candidates |->
                               StatusOf(res[p].candidates[i], p, tieOf[p],
                                        chainEffects)],
                 totalVotes |-> res[p].totalVotes,
                 totalVoters |-> res[p].totalVoters,
                 isVoid |-> res[p].isVoid,
                 voidReason |-> res[p].voidReason,
                 tieAnalysis |-> tieOf[p]]],
         tieSummary |->
            [hasAnyTies |-> \E p \in Positions : tieOf[p].hasTies,
             chainEffects |-> chainEffects,
             analysisTimestamp |-> date]]

\* ------------------------------------------------------------- the inputs
\* registrations that satisfy the data model: a userId in at most one
\* registration, one first choice, at most one second choice, another position
RegChoices ==
    {[first |-> NoPosition, second |-> NoPosition]} \cup
    {[first |-> f, second |-> s] :
        f \in Positions, s \in (Positions \cup {NoPosition})} 

RegistrationsOf(choice) ==
    LET all == [u \in Users |-> [userId |-> u,
                                 firstChoicePosition |-> choice[u].first,
                                 secondChoicePosition |-> choice[u].second]]
    IN  SelectSeq(all, LAMBDA reg : reg.firstChoicePosition # NoPosition)

DataModelRegistrations ==
    {RegistrationsOf(choice) : choice \in
        {ch \in [Users -> RegChoices] :
            \A u \in Users : ch[u].first = NoPosition \/ ch[u].second # ch[u].first}}

\* registrations in which every userId appears at most once, with any second
\* choice (none, another position or the position of the first choice)
UniqueRegistrations ==
    {RegistrationsOf(choice) : choice \in [Users -> RegChoices]}

IsCandidate(u, p, regs) ==
    \E i \in DOMAIN regs : regs[i].userId = u /\
        (regs[i].firstChoicePosition = p \/ regs[i].secondChoicePosition = p)

NoRecord == [hasRecord |-> FALSE, hasVotes |-> FALSE, votes |-> <<>>]

\* the ballot record in which voter v selects the users with at least v votes
CountBallot(count) ==
    [hasRecord |-> TRUE, hasVotes |-> TRUE,
     votes |-> [v \in Voters |->
                  [isArray |-> TRUE,
                   ids |-> SelectSeq([u \in Users |-> u], LAMBDA u : count[u] >= v)]]]

CountBallots(regs) ==
    {[p \in Positions |-> IF has[p] THEN CountBallot(count[p]) ELSE NoRecord] :
        has \in [Positions -> BOOLEAN],
        count \in {c \in [Positions -> [Users -> 0..MaxVotes]] :
                    \A p \in Positions, u \in Users :
                        ~IsCandidate(u, p, regs) => c[p][u] = 0}}

\* the ballot records one voter can leave: no record, a record without votes,
\* a record with no voter, or one voter with an entry that is not an array or
\* lists up to MaxPicks ids, known or not
RECURSIVE SeqsUpTo(_, _)
SeqsUpTo(S, n) ==
    IF n = 0 THEN {<<>>}
    ELSE LET shorter == SeqsUpTo(S, n - 1)
         IN  shorter \cup {Append(q, x) : q \in shorter, x \in S}

FreeEntries ==
    {[isArray |-> FALSE, ids |-> <<>>]} \cup
    {[isArray |-> TRUE, ids |-> q] :
        q \in SeqsUpTo(Users \cup {GhostId, InheritedId}, MaxPicks)}

FreeBallots ==
    {NoRecord,
     [hasRecord |-> TRUE, hasVotes |-> FALSE, votes |-> <<>>],
     [hasRecord |-> TRUE, hasVotes |-> TRUE, votes |-> <<>>]} \cup
    {[hasRecord |-> TRUE, hasVotes |-> TRUE, votes |-> <<e>>] : e \in FreeEntries}

\* a ballot record in which every voter selects every candidate of the position
FullBallot(p, regs) ==
    CountBallot([u \in Users |-> IF IsCandidate(u, p, regs) THEN MaxVotes ELSE 0])

Start ==
    /\ results = <<>>
    /\ winners = {}
    /\ finalWinners = {}
    /\ pc = "tally"
    /\ idx = 1
    /\ now = 0
    /\ run = 1
    /\ report = <<>>
    /\ firstReport = <<>>
    /\ afterFirst = <<>>
    /\ afterSecond = <<>>

\* elections with data-model registrations and well-formed ballots that
\* give every candidate between 0 and MaxVotes votes
Init ==
    /\ positions \in [Positions -> [maxWinners : 1..MaxSeats]]
    /\ registrations \in DataModelRegistrations
    /\ votes \in CountBallots(registrations)
    /\ Start

\* elections in which one position has a free-form ballot record
InitBallots ==
    /\ positions \in [Positions -> [maxWinners : 1..MaxSeats]]
    /\ registrations \in DataModelRegistrations
    /\ \E f \in Positions :
        votes \in {[p \in Positions |-> IF p = f THEN free
                                       ELSE IF others THEN FullBallot(p, registrations)
                                       ELSE NoRecord] :
                    free \in FreeBallots, others \in BOOLEAN}
    /\ Start

\* elections whose positions have the same number of seats and a ballot
\* record each
InitRerun ==
    /\ positions \in {[p \in Positions |-> [maxWinners |-> k]] : k \in 1..MaxSeats}
    /\ registrations \in DataModelRegistrations
    /\ votes \in {b \in CountBallots(registrations) :
                    \A p \in Positions : b[p].hasRecord}
    /\ Start

\* elections whose registrations carry every userId at most once
InitUnique ==
    /\ positions \in [Positions -> [maxWinners : 1..MaxSeats]]
    /\ registrations \in UniqueRegistrations
    /\ votes \in CountBallots(registrations)
    /\ Start

\* the allocations of one position conflict resolution can be applied to:
\* its tally, with isWinner set for at most maxWinners candidates with votes
PositionAllocations(p, pos, regs, ballots) ==
    LET tally == calculatePositionResults(p, ballots, regs)
        withVotes == {tally.candidates[i].userId : i \in
                        {k \in DOMAIN tally.candidates : tally.candidates[k].votes > 0}}
    IN  {[tally EXCEPT !.candidates = SetWinners(tally.candidates, won)] :
            won \in {w \in SUBSET withVotes : Cardinality(w) <= pos[p].maxWinners}}

RECURSIVE Allocations(_, _, _, _)
Allocations(n, pos, regs, ballots) ==
    IF n = 0 THEN {<<>>}
    ELSE {Append(rest, last) :
            rest \in Allocations(n - 1, pos, regs, ballots),
            last \in PositionAllocations(n, pos, regs, ballots)}

\* processElectionLogic at the start of its third phase, for any allocation
\* of an election whose positions have the same number of seats and a ballot
\* record each
InitResolve ==
    /\ positions \in {[p \in Positions |-> [maxWinners |-> k]] : k \in 1..MaxSeats}
    /\ registrations \in DataModelRegistrations
    /\ votes \in {b \in CountBallots(registrations) :
                    \A p \in Positions : b[p].hasRecord}
    /\ results \in Allocations(NumPositions, positions, registrations, votes)
    /\ winners = {u \in Users : \E p \in Positions :
                    \E i \in DOMAIN results[p].candidates :
                        /\ results[p].candidates[i].userId = u
                        /\ results[p].candidates[i].isWinner}
    /\ finalWinners = {}
    /\ pc = "collect"
    /\ idx = 1
    /\ now = 0
    /\ run = 1
    /\ report = <<>>
    /\ firstReport = <<>>
    /\ afterFirst = <<>>
    /\ afterSecond = results

\* ------------------------------------------------------------ the actions
\* calculateElectionResults, lines 27-40: the tally of every position, then
\* the entry of processElectionLogic (deep copy, new Set)
Tally ==
    /\ pc = "tally"
    /\ results' = [p \in Positions |->
                      calculatePositionResults(p, votes, registrations)]
    /\ winners' = {}
    /\ pc' = "phase1"
    /\ idx' = 1
    /\ UNCHANGED <<positions, registrations, votes, finalWinners, now, run,
                   report, firstReport, afterFirst, afterSecond>>

\* one iteration of the first-choice loop
Phase1 ==
    /\ pc = "phase1"
    /\ LET result == results[idx]
           chosen == IF result.isVoid THEN {}
                     ELSE FirstChoiceWinners(result, positions[idx].maxWinners)
           next == [results EXCEPT
                      ![idx].candidates = SetWinners(result.candidates, chosen)]
       IN  /\ results' = next
           /\ winners' = winners \cup chosen
           /\ afterFirst' = IF idx = NumPositions THEN next ELSE afterFirst
    /\ IF idx = NumPositions
       THEN pc' = "phase2" /\ idx' = 1
       ELSE pc' = pc /\ idx' = idx + 1
    /\ UNCHANGED <<positions, registrations, votes, finalWinners, now, run,
                   report, firstReport, afterSecond>>

\* one iteration of the second-choice loop
Phase2 ==
    /\ pc = "phase2"
    /\ LET result == results[idx]
           chosen == IF result.isVoid THEN {}
                     ELSE SecondChoiceWinners(result, positions[idx].maxWinners,
                                              winners)
           next == [results EXCEPT
                      ![idx].candidates = SetWinners(result.candidates, chosen)]
       IN  /\ results' = next
           /\ winners' = winners \cup chosen
           /\ afterSecond' = IF idx = NumPositions THEN next ELSE afterSecond
    /\ IF idx = NumPositions
       THEN pc' = "collect" /\ idx' = 1
       ELSE pc' = pc /\ idx' = idx + 1
    /\ UNCHANGED <<positions, registrations, votes, finalWinners, now, run,
                   report, firstReport, afterFirst>>

\* a collecting loop that adds to a set kept from the call before
Collect_KeepsSet ==
    /\ pc = "collect"
    /\ finalWinners' = finalWinners \cup CollectFirstChoiceWinners(results)
    /\ pc' = "resolve"
    /\ idx' = 1
    /\ UNCHANGED <<positions, registrations, votes, results, winners, now, run,
                   report, firstReport, afterFirst, afterSecond>>

\* phase 3, lines 259-270: new Set and the loop that collects
Collect ==
    /\ pc = "collect"
    /\ finalWinners' = CollectFirstChoiceWinners(results)
    /\ pc' = "resolve"
    /\ idx' = 1
    /\ UNCHANGED <<positions, registrations, votes, results, winners, now, run,
                   report, firstReport, afterFirst, afterSecond>>

\* phase 3, one iteration of the loop of lines 273-307
Resolve ==
    /\ pc = "resolve"
    /\ LET result == results[idx]
           demoted == DemoteConflicts(result.candidates, 1, finalWinners)
           refill == RefillWinners(demoted.candidates,
                                   positions[idx].maxWinners, demoted.final)
       IN  IF result.isVoid
           THEN UNCHANGED <<results, finalWinners>>
           ELSE /\ results' = [results EXCEPT ![idx].candidates =
                                  SetWinners(demoted.candidates, refill)]
                /\ finalWinners' = demoted.final \cup refill
    /\ IF idx = NumPositions
       THEN pc' = "tie" /\ idx' = 1
       ELSE pc' = pc /\ idx' = idx + 1
    /\ UNCHANGED <<positions, registrations, votes, winners, now, run,
                   report, firstReport, afterFirst, afterSecond>>

\* calculateElectionResults, lines 42-51: the dependencies and the tie
\* analysis; new Date() returns a time not before the last one read
TieAnalysis ==
    /\ pc = "tie"
    /\ \E date \in now..MaxClock :
        /\ now' = date
        /\ report' = processTieAnalysis(results, positions, registrations, date)
    /\ pc' = "done"
    /\ UNCHANGED <<positions, registrations, votes, results, winners,
                   finalWinners, idx, run, firstReport, afterFirst, afterSecond>>

\* calculateElectionResults is called again on the same stored inputs
Rerun ==
    /\ pc = "done"
    /\ run < MaxRuns
    /\ run' = run + 1
    /\ firstReport' = IF run = 1 THEN report ELSE firstReport
    /\ pc' = "tally"
    /\ idx' = 1
    /\ UNCHANGED <<positions, registrations, votes, results, winners,
                   finalWinners, now, report, afterFirst, afterSecond>>

Next == Tally \/ Phase1 \/ Phase2 \/ Collect \/ Resolve \/ TieAnalysis

Spec == Init /\ [][Next]_vars

NextResolve == Collect \/ Resolve

SpecResolve == InitResolve /\ [][NextResolve]_vars

SpecBallots == InitBallots /\ [][Next]_vars

NextRerun == Next \/ Rerun

SpecRerun == InitRerun /\ [][NextRerun]_vars

SpecUnique == InitUnique /\ [][Next]_vars

\* ------------------------------------------------------------ the claims
\* processElectionLogic is running or has returned: results holds its copy
InLogic == pc \in {"phase1", "phase2", "collect", "resolve", "tie", "done"}
\* processElectionLogic has returned
LogicDone == pc \in {"tie", "done"}

WinsIn(res, u, p) ==
    \E i \in DOMAIN res[p].candidates :
        res[p].candidates[i].userId = u /\ res[p].candidates[i].isWinner

RunsIn(res, u, p) ==
    \E i \in DOMAIN res[p].candidates :
        res[p].candidates[i].userId = u /\ res[p].candidates[i].votes > 0

\* C1: once processElectionLogic has returned, no userId is a winner of more
\* than one position (the registrations satisfy the data model).
C1_AtMostOnePosition ==
    LogicDone =>
        \A u \in Users : \A p, q \in Positions :
            WinsIn(results, u, p) /\ WinsIn(results, u, q) => p = q

\* a user with votes in two positions wins one of them, and the other one
\* keeps a seat empty rather than seating that user a second time
C1_Witness ==
    /\ pc = "done"
    /\ \E u \in Users : \E p, q \in Positions :
        /\ p # q
        /\ WinsIn(results, u, p)
        /\ RunsIn(results, u, q) /\ ~WinsIn(results, u, q)
        /\ ~results[q].isVoid
        /\ NumWinners(results[q].candidates) < positions[q].maxWinners

\* C2: in every non-void position the number of winners is at most
\* maxWinners, after each iteration of each of the three phases.
C2_WinnersWithinSeats ==
    InLogic =>
        \A p \in Positions :
            ~results[p].isVoid =>
                NumWinners(results[p].candidates) <= positions[p].maxWinners

\* a position with more first-choice candidates with votes than seats is full
C2_Witness ==
    /\ pc = "done"
    /\ \E p \in Positions :
        /\ ~results[p].isVoid
        /\ Cardinality({i \in DOMAIN results[p].candidates :
                          /\ results[p].candidates[i].choiceType = "first"
                          /\ results[p].candidates[i].votes > 0})
              > positions[p].maxWinners
        /\ NumWinners(results[p].candidates) = positions[p].maxWinners

\* C3: a first-choice winner stays a winner: no step of processElectionLogic
\* turns isWinner of a candidate with choiceType 'first' from true to false
\* (so the winners of the first-choice pass are winners of the result).
C3_FirstChoiceNeverDemoted ==
    [][InLogic /\ InLogic' =>
        \A p \in Positions : \A i \in DOMAIN results[p].candidates :
            /\ results[p].candidates[i].isWinner
            /\ results[p].candidates[i].choiceType = "first"
            => /\ i \in DOMAIN results'[p].candidates
               /\ results'[p].candidates[i] = results[p].candidates[i]]_vars

\* a winner of the first-choice pass is a winner of the result, next to a
\* second-choice candidate of that position who has more votes
C3_Witness ==
    /\ pc = "done"
    /\ \E p \in Positions : \E i, j \in DOMAIN results[p].candidates :
        /\ afterFirst[p].candidates[i].isWinner
        /\ results[p].candidates[i].isWinner
        /\ results[p].candidates[i].choiceType = "first"
        /\ results[p].candidates[j].choiceType = "second"
        /\ results[p].candidates[j].votes > results[p].candidates[i].votes

WinsElsewhere(res, u, p) == \E q \in Positions : q # p /\ WinsIn(res, u, q)

\* C5 as claimed: in a non-void position no non-winner who wins nowhere else
\* has strictly more votes than a winner (whatever the choice types are).
C5_HighestVotesWin ==
    pc = "done" =>
        \A p \in Positions : ~results[p].isVoid =>
            \A i, j \in DOMAIN results[p].candidates :
                /\ results[p].candidates[i].isWinner
                /\ ~results[p].candidates[j].isWinner
                /\ ~WinsElsewhere(results, results[p].candidates[j].userId, p)
                => results[p].candidates[j].votes <= results[p].candidates[i].votes

\* C5 as amended: the winners are the highest vote counts within a choice
\* type, and a second-choice candidate wins only when every first-choice
\* candidate of the position who has votes is a winner.
C5_HighestVotesWinPerChoice ==
    pc = "done" =>
        \A p \in Positions : ~results[p].isVoid =>
            \A i, j \in DOMAIN results[p].candidates :
                /\ results[p].candidates[i].isWinner
                /\ ~results[p].candidates[j].isWinner
                /\ ~WinsElsewhere(results, results[p].candidates[j].userId, p)
                => \/ /\ results[p].candidates[i].choiceType
                           = results[p].candidates[j].choiceType
                      /\ results[p].candidates[j].votes
                           <= results[p].candidates[i].votes
                   \/ /\ results[p].candidates[i].choiceType = "second"
                      /\ results[p].candidates[j].choiceType = "first"
                      /\ results[p].candidates[j].votes = 0
                   \/ /\ results[p].candidates[i].choiceType = "first"
                      /\ results[p].candidates[j].choiceType = "second"

\* a second-choice winner beats a second-choice candidate with fewer votes
\* who wins nowhere, in a position whose first-choice candidate has no vote
C5_Witness ==
    /\ pc = "done"
    /\ \E p \in Positions : \E i, j, k \in DOMAIN results[p].candidates :
        /\ results[p].candidates[i].isWinner
        /\ results[p].candidates[i].choiceType = "second"
        /\ ~results[p].candidates[j].isWinner
        /\ results[p].candidates[j].choiceType = "second"
        /\ results[p].candidates[j].votes > 0
        /\ results[p].candidates[j].votes < results[p].candidates[i].votes
        /\ ~WinsElsewhere(results, results[p].candidates[j].userId, p)
        /\ results[p].candidates[k].choiceType = "first"

\* C6 as claimed: the first-choice pass marks every first-choice candidate
\* with votes whose count reaches the maxWinners-th highest first-choice count.
C6_TieInclusiveCutoff ==
    (pc = "phase2" /\ idx = 1) =>
        \A p \in Positions : ~results[p].isVoid =>
            \A i \in DOMAIN results[p].candidates :
                /\ results[p].candidates[i].choiceType = "first"
                /\ results[p].candidates[i].votes > 0
                /\ Cardinality({j \in DOMAIN results[p].candidates :
                      /\ results[p].candidates[j].choiceType = "first"
                      /\ results[p].candidates[j].votes
                            > results[p].candidates[i].votes})
                     < positions[p].maxWinners
                => results[p].candidates[i].isWinner

\* C6 as amended: the first-choice pass marks exactly the first maxWinners
\* first-choice candidates with votes, in descending vote order and, among
\* equal counts, in candidate-list order; a candidate tied with the last seat
\* but behind it in the list is not marked.
C6_TopSeatsInListOrder ==
    (pc = "phase2" /\ idx = 1) =>
        \A p \in Positions : ~results[p].isVoid =>
            \A i \in DOMAIN results[p].candidates :
                results[p].candidates[i].isWinner <=>
                    /\ results[p].candidates[i].choiceType = "first"
                    /\ results[p].candidates[i].votes > 0
                    /\ Cardinality({j \in DOMAIN results[p].candidates :
                          /\ results[p].candidates[j].choiceType = "first"
                          /\ \/ results[p].candidates[j].votes
                                  > results[p].candidates[i].votes
                             \/ /\ results[p].candidates[j].votes
                                     = results[p].candidates[i].votes
                                /\ j < i})
                         < positions[p].maxWinners

\* two first-choice candidates tie for the last seat: one is marked, one is not
C6_Witness ==
    /\ pc = "phase2" /\ idx = 1
    /\ \E p \in Positions : \E i, j \in DOMAIN results[p].candidates :
        /\ results[p].candidates[i].choiceType = "first"
        /\ results[p].candidates[j].choiceType = "first"
        /\ results[p].candidates[i].votes = results[p].candidates[j].votes
        /\ results[p].candidates[i].isWinner
        /\ ~results[p].candidates[j].isWinner
        /\ results[p].candidates[j].votes > 0

VoidIterationSkips ==
    (pc \in {"phase1", "phase2", "resolve"} /\ results[idx].isVoid) =>
        (results' = results /\ winners' = winners /\ finalWinners' = finalWinners)

\* C8: a void position is left as the tally returned it, none of its
\* candidates is a winner, and the iteration of a phase that visits it adds
\* nobody to winners or finalWinners.
C8_VoidUntouched ==
    /\ [](InLogic =>
            \A p \in Positions : results[p].isVoid =>
                /\ results[p] = calculatePositionResults(p, votes, registrations)
                /\ NumWinners(results[p].candidates) = 0)
    /\ [][VoidIterationSkips]_vars

\* a void position with candidates, one of whom wins another position
C8_Witness ==
    /\ pc = "done"
    /\ \E p, q \in Positions : \E i \in DOMAIN results[p].candidates :
        /\ results[p].isVoid
        /\ p # q
        /\ WinsIn(results, results[p].candidates[i].userId, q)

HasRegistrant(p) ==
    \E r \in DOMAIN registrations :
        \/ registrations[r].firstChoicePosition = p
        \/ registrations[r].secondChoicePosition = p

HasBallots(p) ==
    votes[p].hasRecord /\ votes[p].hasVotes /\ votes[p].votes # <<>>

\* C4: a position nobody registered for is void, 'no one registered', with
\* no candidate; a position with a registrant and a missing or empty ballot
\* record is void, 'no one voted', every candidate at 0 votes and not a
\* winner; every other position is not void.
C4_VoidClassification ==
    InLogic =>
        \A p \in Positions :
            /\ ~HasRegistrant(p) =>
                /\ results[p].isVoid
                /\ results[p].voidReason = "no one registered"
                /\ results[p].candidates = <<>>
            /\ (HasRegistrant(p) /\ ~HasBallots(p)) =>
                /\ results[p].isVoid
                /\ results[p].voidReason = "no one voted"
                /\ results[p].candidates # <<>>
                /\ \A i \in DOMAIN results[p].candidates :
                    /\ results[p].candidates[i].votes = 0
                    /\ ~results[p].candidates[i].isWinner
            /\ (HasRegistrant(p) /\ HasBallots(p)) => ~results[p].isVoid

\* one position without registrant, one with a registrant and a ballot
\* record whose votes mapping is empty
C4_Witness ==
    /\ pc = "phase1" /\ idx = 1
    /\ \E p, q \in Positions :
        /\ results[p].voidReason = "no one registered"
        /\ results[q].voidReason = "no one voted"
        /\ votes[q].hasRecord /\ votes[q].hasVotes

\* the selections of userId on the ballot of p: the places of the array
\* entries that hold it
SelectionsOf(p, userId) ==
    {vk \in (DOMAIN votes[p].votes) \X (1..MaxPicks) :
        /\ votes[p].votes[vk[1]].isArray
        /\ vk[2] \in DOMAIN votes[p].votes[vk[1]].ids
        /\ votes[p].votes[vk[1]].ids[vk[2]] = userId}

\* C10: in a non-void position every selection of a candidate of the
\* position is one vote for that candidate, the selections of unknown ids and
\* the entries that are not arrays count nothing, and totalVotes is the sum
\* of the vote counts of the candidates returned.
C10_TallyCountsCandidateSelections ==
    InLogic =>
        \A p \in Positions : ~results[p].isVoid =>
            /\ \A i \in DOMAIN results[p].candidates :
                results[p].candidates[i].votes =
                    Cardinality(SelectionsOf(p, results[p].candidates[i].userId))
            /\ results[p].totalVotes =
                SumSeq([i \in DOMAIN results[p].candidates |->
                            results[p].candidates[i].votes])

IsFirstChoiceWinner(res, u, q) ==
    \E i \in DOMAIN res[q].candidates :
        /\ res[q].candidates[i].userId = u
        /\ res[q].candidates[i].isWinner
        /\ res[q].candidates[i].choiceType = "first"

\* the second-choice winners of p who are first-choice winners elsewhere
Conflicts(res, p) ==
    {i \in DOMAIN res[p].candidates :
        /\ res[p].candidates[i].isWinner
        /\ res[p].candidates[i].choiceType = "second"
        /\ \E q \in Positions : q # p /\ ~res[q].isVoid
              /\ IsFirstChoiceWinner(res, res[p].candidates[i].userId, q)}

\* the candidates of p a vacated seat can go to
Eligible(res, p, final) ==
    {i \in DOMAIN res[p].candidates :
        /\ ~res[p].candidates[i].isWinner
        /\ res[p].candidates[i].votes > 0
        /\ res[p].candidates[i].userId \notin final}

ConflictResolved ==
    (pc = "resolve" /\ ~results[idx].isVoid) =>
        LET before == results[idx].candidates
            after == results'[idx].candidates
            eligible == Eligible(results, idx, finalWinners)
            marked == {i \in DOMAIN before : ~before[i].isWinner /\ after[i].isWinner}
        IN  /\ \A i \in DOMAIN before :
                (before[i].isWinner /\ before[i].choiceType = "first")
                    => after[i].isWinner
            /\ Conflicts(results, idx) # {} =>
                /\ \A i \in Conflicts(results, idx) : ~after[i].isWinner
                /\ \A q \in Positions : q # idx => results'[q] = results[q]
                /\ marked \subseteq eligible
                /\ eligible # {} =>
                    \E i \in marked :
                        \A j \in eligible : before[j].votes <= before[i].votes

\* C7: when the conflict-resolution loop reaches a position P where X is a
\* second-choice winner while X is a first-choice winner of a position Q, the
\* iteration demotes X in P, leaves every other position as it is, and marks
\* a candidate of P with the highest vote count among those with votes who are
\* not winners of P and not finalized, if there is one; no iteration takes
\* isWinner from a first-choice winner of its position (X stays a winner of Q).
C7_ConflictDemotedAndRefilled == [][ConflictResolved]_vars

\* X won P as second choice and Q as first choice; in the result X lost P,
\* and the seat went to the candidate with the most votes among two others
C7_Witness ==
    /\ pc = "tie"
    /\ \E p \in Positions : \E x, y, z \in DOMAIN results[p].candidates :
        /\ x \in Conflicts(afterSecond, p)
        /\ ~results[p].candidates[x].isWinner
        /\ ~afterSecond[p].candidates[y].isWinner
        /\ results[p].candidates[y].isWinner
        /\ ~results[p].candidates[z].isWinner
        /\ z # x
        /\ results[p].candidates[z].votes > 0
        /\ results[p].candidates[z].votes < results[p].candidates[y].votes
        /\ ~WinsElsewhere(results, results[p].candidates[z].userId, p)

\* the first- and second-choice pass are over
FillDone == pc \in {"collect", "resolve", "tie", "done"}

\* C11: when every userId appears in at most one registration, the allocation
\* after the second-choice fill has no second-choice winner who is a
\* first-choice winner elsewhere, and conflict resolution changes nothing:
\* after each of its iterations, and in the returned result, every position
\* is as the second-choice fill left it (nobody demoted, no seat refilled).
C11_ResolutionIsNoOp ==
    FillDone =>
        /\ \A p \in Positions : Conflicts(afterSecond, p) = {}
        /\ results = afterSecond

\* the result has a second-choice winner for the loop to finalize, and a
\* position with an empty seat and a candidate with votes the refill passes
\* over, one whose registration names the same position twice being present
C11_Witness ==
    /\ pc = "done"
    /\ \E i \in DOMAIN registrations :
        registrations[i].secondChoicePosition = registrations[i].firstChoicePosition
    /\ \E p \in Positions : \E i \in DOMAIN results[p].candidates :
        /\ results[p].candidates[i].isWinner
        /\ results[p].candidates[i].choiceType = "second"
    /\ \E q \in Positions : \E j \in DOMAIN results[q].candidates :
        /\ ~results[q].isVoid
        /\ NumWinners(results[q].candidates) < positions[q].maxWinners
        /\ ~results[q].candidates[j].isWinner
        /\ results[q].candidates[j].votes > 0

\* C12: in the result of processElectionLogic, a non-void position with fewer
\* winners than maxWinners has no candidate left to seat: each of its
\* candidates with votes > 0 who is not a winner there is a winner of another
\* position; and every candidate with isWinner = true has votes > 0.
C12_NoSeatLeftEmpty ==
    LogicDone =>
        \A p \in Positions : \A i \in DOMAIN results[p].candidates :
            /\ (/\ ~results[p].isVoid
                /\ NumWinners(results[p].candidates) < positions[p].maxWinners
                /\ results[p].candidates[i].votes > 0
                /\ ~results[p].candidates[i].isWinner)
               => WinsElsewhere(results, results[p].candidates[i].userId, p)
            /\ results[p].candidates[i].isWinner
               => results[p].candidates[i].votes > 0

\* a position keeps a seat empty although it has a candidate with votes (a
\* second-choice candidate seated by the position of the first choice) and a
\* candidate without votes, and has seated a second-choice candidate
C12_Witness ==
    /\ pc = "done"
    /\ \E p \in Positions : \E i, j, k \in DOMAIN results[p].candidates :
        /\ ~results[p].isVoid
        /\ NumWinners(results[p].candidates) < positions[p].maxWinners
        /\ results[p].candidates[i].votes > 0
        /\ results[p].candidates[i].choiceType = "second"
        /\ ~results[p].candidates[i].isWinner
        /\ WinsElsewhere(results, results[p].candidates[i].userId, p)
        /\ results[p].candidates[j].votes = 0
        /\ ~results[p].candidates[j].isWinner
        /\ results[p].candidates[k].isWinner
        /\ results[p].candidates[k].choiceType = "second"

====
